---- MODULE Spec2Model ----
(***************************************************************************)
(* Model of the voice assistant's conversational core:                     *)
(*   - the agent graph of src/src/agent/graph.py (agent_node, tool_node,   *)
(*     response_node, should_use_tools, run_agent_with_history), run on    *)
(*     the graph runtime the code compiles it with (the add_messages       *)
(*     reducer of AgentState.messages and the runtime's step limit);       *)
(*   - the session registry and the chat / voice-response endpoints of     *)
(*     src/server.py.                                                      *)
(* The hosted model and the tools are external: each invocation is a      *)
(* nondeterministic choice among the outcomes they can produce, raising    *)
(* an exception included.                                                  *)
(***************************************************************************)
EXTENDS Integers, Sequences, FiniteSets, TLC

VARIABLES
    pc,         \* where the current call of run_agent_with_history stands
    state,      \* the AgentState of the graph run
    steps,      \* super-steps the graph run has executed
    rounds,     \* executions of the tools node in this run
    arg,        \* arguments of the current / last call: [query, history]
    ret,        \* value returned by the last call: [response, updated_history]
    history,    \* the caller's history variable (graph.py:492-503)
    turn,       \* number of calls made so far
    produced,   \* the messages the nodes of this run created, in creation order
    llm_input,  \* the messages the last llm.invoke of this run was given
    invocations,  \* what the model did at each invocation of this run
    plainTurns, \* turns so far whose model answered at once, without tool calls
    conversation_sessions,  \* server.py: session id -> history
    reqs,       \* server.py: the requests in flight, by request id
    index_file, \* TRUE when index.faiss exists in the index directory
    index_docs, \* the documents (chunks) held by the index on disk
    top_k,      \* SOP_RETRIEVAL_TOP_K as get_config reads it
    vectorstore,  \* sop_service._vectorstore: None or the loaded instance
    loads,      \* number of FAISS.load_local calls made so far
    workers,    \* the worker threads that run tool calls
    build,      \* a run of scripts/create_sop_index.py (SOPIndexer.run)
    received,   \* order in which the server received the turns, per session
    active_calls,   \* VoiceCallHandler.active_calls: call_sid -> pipeline
    context_store,  \* VoiceCallHandler.context_store: call_sid -> context
    call_tasks  \* the invocations of handle_new_call, in order of arrival

agentVars == <<pc, state, steps, rounds, arg, ret, history, turn, produced,
              llm_input, invocations, plainTurns>>
voiceVars == <<active_calls, context_store, call_tasks>>
serverVars == <<conversation_sessions, reqs, received, voiceVars>>
indexVars == <<index_file, index_docs, top_k, vectorstore, loads, workers,
              build>>
vars == <<pc, state, steps, rounds, arg, ret, history, turn, produced,
          llm_input, invocations, plainTurns,
          conversation_sessions, reqs, received,
          index_file, index_docs, top_k, vectorstore, loads, workers, build,
          active_calls, context_store, call_tasks>>

----------------------------------------------------------------------------
(* Bounds of the model *)

\* Calls of run_agent_with_history made one after the other on one history.
MaxTurns == 2

\* The graph runtime's step limit. agent.invoke(state) (graph.py:414) passes
\* no config, so the runtime's default applies (25 in LangGraph); the model
\* runs the same rule with a smaller limit.
RecursionLimit == 4

----------------------------------------------------------------------------
(* Values *)

None == "<None>"

\* get_prompt("error"): PROMPTS["error"] = ERROR_RESPONSE_PROMPT, a non-empty text.
ERROR_RESPONSE_PROMPT == "I apologize, but I'm having trouble accessing that information right now."

get_prompt(name) == IF name = "error" THEN ERROR_RESPONSE_PROMPT ELSE ""

SYSTEM_PROMPT == "You are Sarah"

\* The tools bound to the model.
sop_tools == {"search_sop_tool", "get_procedure"}

Message(role, id, content, calls) ==
    [role |-> role, id |-> id, content |-> content, tool_calls |-> calls]

SystemMessage(id, content) == Message("system", id, content, <<>>)
HumanMessage(id, content) == Message("human", id, content, <<>>)
AIMessage(id, content, calls) == Message("ai", id, content, calls)
ToolMessage(id, content) == Message("tool", id, content, <<>>)

\* Query strings a caller passes ("" included: run_agent_with_history itself
\* accepts it, the server endpoints reject it).
Queries == {"q", ""}

\* graph.py:446-453
get_greeting ==
    "Thank you for calling WellStreet Urgent Care. This is Sarah. How may I help you today?"

\* What one invocation of the model can do: raise, or reply with a text
\* (possibly empty) and zero or more tool calls.
ModelOutcomes ==
    { [kind |-> "raise", content |-> "", tool_calls |-> <<>>] }
    \cup { [kind |-> "reply", content |-> c, tool_calls |-> <<>>] : c \in {"answer", ""} }
    \cup { [kind |-> "reply", content |-> "", tool_calls |-> tc] :
             tc \in { <<"search_sop_tool">>, <<"get_procedure", "search_sop_tool">> } }

\* Replies of a model that answers without tools and may, against the
\* instruction of the system prompt (prompts.py:39-43), repeat the greeting.
GreetingOutcomes ==
    { [kind |-> "reply", content |-> c, tool_calls |-> <<>>] :
        c \in {"answer", "", get_greeting} }

\* What one execution of the requested tools can do.
ToolOutcomes == {"ok", "raise"}

----------------------------------------------------------------------------
(* Sequence helpers *)

Last(s) == s[Len(s)]

RECURSIVE SelectNonSystem(_)
SelectNonSystem(s) ==
    IF s = <<>> THEN <<>>
    ELSE IF s[1].role = "system" THEN SelectNonSystem(Tail(s))
         ELSE <<s[1]>> \o SelectNonSystem(Tail(s))

Ids(s) == { s[i].id : i \in 1..Len(s) }

NoDuplicates(s) == \A i, j \in 1..Len(s) : s[i].id = s[j].id => i = j

----------------------------------------------------------------------------
(* AgentState and the graph runtime *)

\* AgentState(...) as run_agent_with_history builds it.
AgentState(messages, query) ==
    [messages |-> messages, context |-> None, current_query |-> query,
     tool_calls |-> <<>>, response |-> None, error |-> None, call_stage |-> "main"]

\* The state variable's value while no graph run exists.
NoState == AgentState(<<>>, None)

\* hasattr(m, 'tool_calls') and m.tool_calls: only an assistant message has
\* the attribute.
HasToolCalls(m) == m.role = "ai" /\ m.tool_calls # <<>>

\* A wrong reducer: plain list concatenation.
RECURSIVE add_messages_concat(_, _)
add_messages_concat(left, right) ==
    IF right = <<>> THEN left
    ELSE add_messages_concat(Append(left, Head(right)), Tail(right))

\* The reducer of AgentState.messages: a message of the update whose id is
\* already present replaces that message in place, any other is appended.
RECURSIVE add_messages(_, _)
add_messages(left, right) ==
    IF right = <<>> THEN left
    ELSE LET m == Head(right)
             merged == IF \E i \in 1..Len(left) : left[i].id = m.id
                       THEN [i \in 1..Len(left) |->
                               IF left[i].id = m.id THEN m ELSE left[i]]
                       ELSE Append(left, m)
         IN add_messages(merged, Tail(right))

\* The runtime writes a node's returned dict into the state: messages through
\* the reducer, every other key by overwriting.
ApplyUpdate(st, upd) ==
    [upd EXCEPT !.messages = add_messages(st.messages, upd.messages)]

\* An id no message of the list has: ids are <<run, position at creation>>.
NewId(tag, messages, k) == <<tag, Len(messages) + k>>

\* The messages a node's returned dict adds to the state's.
NewMessages(st, upd) == SubSeq(upd.messages, Len(st.messages) + 1, Len(upd.messages))

----------------------------------------------------------------------------
(* Graph nodes *)

\* An agent node that puts the system prompt in front unconditionally.
LlmMessages_always(st, tag) ==
    <<SystemMessage(<<tag, 0>>, SYSTEM_PROMPT)>> \o st.messages

\* Lines 126-130: the messages agent_node gives to llm.invoke: the state's,
\* with the system prompt put in front when they do not start with a
\* system message.
LlmMessages(st, tag) ==
    IF st.messages = <<>> \/ st.messages[1].role # "system"
    THEN <<SystemMessage(<<tag, 0>>, SYSTEM_PROMPT)>> \o st.messages
    ELSE st.messages

agent_node(st, out, tag) ==
    IF out.kind = "raise"
    THEN [st EXCEPT !.error = "model error", !.response = get_prompt("error")]
    ELSE LET response == AIMessage(NewId(tag, st.messages, 1), out.content, out.tool_calls)
         IN [st EXCEPT !.messages = st.messages \o <<response>>,
                       !.response = out.content]

\* The text a tool returns.
ToolResult(name) ==
    IF name = "search_sop_tool" THEN "[1] sop text" ELSE "Procedure for 'topic': sop text"

\* ToolNode(sop_tools).invoke(state): one tool message per requested call,
\* in request order.
ToolNodeInvoke(st, tag) ==
    LET calls == Last(st.messages).tool_calls
    IN [i \in 1..Len(calls) |->
          ToolMessage(NewId(tag, st.messages, i), ToolResult(calls[i]))]

tool_node(st, out, tag) ==
    IF st.messages = <<>>
    THEN [st EXCEPT !.error = "list index out of range"]
    ELSE IF ~HasToolCalls(Last(st.messages))
    THEN st
    ELSE IF out = "raise"
    THEN [st EXCEPT !.error = "tool error"]
    ELSE LET result == ToolNodeInvoke(st, tag)
         IN [st EXCEPT !.messages = st.messages \o result,
                       !.context = IF result # <<>> THEN Last(result).content ELSE None]

\* A response node that takes the last message's content as it is.
response_node_nocheck(st) ==
    IF st.messages = <<>>
    THEN [st EXCEPT !.error = "list index out of range", !.response = get_prompt("error")]
    ELSE [st EXCEPT !.response = Last(st.messages).content]

response_node(st) ==
    IF st.messages = <<>>
    THEN [st EXCEPT !.error = "list index out of range", !.response = get_prompt("error")]
    ELSE IF Last(st.messages).content # ""
    THEN [st EXCEPT !.response = Last(st.messages).content]
    ELSE [st EXCEPT !.response = get_prompt("error")]

\* A router that always ends the turn.
should_use_tools_never(st) == "response"

should_use_tools(st) ==
    IF HasToolCalls(Last(st.messages)) THEN "tools" ELSE "response"

\* The edges of build_agent_graph: agent -> tools | response, tools -> agent,
\* response -> END.
NextNode(node, st) ==
    CASE node = "agent" -> should_use_tools(st)
      [] node = "tools" -> "agent"
      [] node = "response" -> "END"

\* A runtime without a step limit.
OutOfSteps_never(n) == FALSE

\* The runtime stops a run that has used up its steps without reaching END.
OutOfSteps(n) == n >= RecursionLimit

----------------------------------------------------------------------------
(* run_agent_with_history *)

\* Lines 389-411: the messages the graph run starts with.
InitialMessages(tag, query, hist) ==
    <<SystemMessage(<<tag, 1>>, SYSTEM_PROMPT)>> \o hist
        \o <<HumanMessage(<<tag, Len(hist) + 2>>, query)>>

\* A graph that resumes from the state its previous run ended in.
StartState_resumed(previous, messages, query) ==
    ApplyUpdate(previous, AgentState(messages, query))

\* Lines 403-414: agent.invoke(state) on the graph compiled without a
\* checkpointer (line 300): the run starts from the given state alone,
\* whatever state the previous run ended in.
StartState(previous, messages, query) ==
    ApplyUpdate(NoState, AgentState(messages, query))

\* A return that hands back every message of the final state.
ReturnValue_unfiltered(result) ==
    [response |-> result.response,
     updated_history |-> result.messages]

\* Lines 416-422: what the call returns when agent.invoke returned.
ReturnValue(result) ==
    [response |-> result.response,
     updated_history |-> SelectNonSystem(result.messages)]

\* An except branch that gives the history up.
ExceptValueEmpty(hist) ==
    [response |-> get_prompt("error"), updated_history |-> <<>>]

\* Lines 424-426: what the call returns when anything raised.
ExceptValue(hist) ==
    [response |-> get_prompt("error"), updated_history |-> hist]

----------------------------------------------------------------------------
(* One caller making turns one after the other (graph.py:492-506) *)

\* The model was invoked once in the run and answered without tool calls.
PlainTurn(invs) ==
    Len(invs) = 1 /\ invs[1].kind = "reply" /\ invs[1].tool_calls = <<>>

NoReturn == [response |-> None, updated_history |-> <<>>]
NoArg == [query |-> None, history |-> <<>>]

Call ==
    /\ pc = "idle"
    /\ turn < MaxTurns
    /\ \E q \in Queries :
         /\ arg' = [query |-> q, history |-> history]
         /\ state' = StartState(state, InitialMessages(turn + 1, q, history), q)
    /\ turn' = turn + 1
    /\ pc' = "agent"
    /\ steps' = 0
    /\ rounds' = 0
    /\ produced' = <<>>
    /\ llm_input' = <<>>
    /\ invocations' = <<>>
    /\ UNCHANGED <<ret, history, plainTurns, serverVars, indexVars>>

\* One run of agent_node with the model's outcome drawn from outcomes.
AgentStepWith(outcomes) ==
    /\ pc = "agent"
    /\ ~OutOfSteps(steps)
    /\ \E out \in outcomes :
         LET upd == agent_node(state, out, turn)
         IN /\ state' = ApplyUpdate(state, upd)
            /\ produced' = produced \o NewMessages(state, upd)
            /\ invocations' = Append(invocations, out)
    /\ llm_input' = LlmMessages(state, turn)
    /\ pc' = NextNode("agent", state')
    /\ steps' = steps + 1
    /\ UNCHANGED <<rounds, arg, ret, history, turn, plainTurns, serverVars, indexVars>>

AgentStep == AgentStepWith(ModelOutcomes)

ToolStep ==
    /\ pc = "tools"
    /\ ~OutOfSteps(steps)
    /\ \E out \in ToolOutcomes :
         LET upd == tool_node(state, out, turn)
         IN /\ state' = ApplyUpdate(state, upd)
            /\ produced' = produced \o NewMessages(state, upd)
    /\ pc' = NextNode("tools", state')
    /\ steps' = steps + 1
    /\ rounds' = rounds + 1
    /\ UNCHANGED <<arg, ret, history, turn, llm_input, invocations, plainTurns,
                   serverVars, indexVars>>

ResponseStep ==
    /\ pc = "response"
    /\ ~OutOfSteps(steps)
    /\ state' = ApplyUpdate(state, response_node(state))
    /\ pc' = NextNode("response", state')
    /\ steps' = steps + 1
    /\ UNCHANGED <<rounds, arg, ret, history, turn, produced, llm_input,
                   invocations, plainTurns, serverVars, indexVars>>

\* agent.invoke returned: lines 416-422, then the caller keeps the history.
Return ==
    /\ pc = "END"
    /\ ret' = ReturnValue(state)
    /\ history' = ret'.updated_history
    /\ pc' = "idle"
    /\ plainTurns' = IF PlainTurn(invocations) THEN plainTurns + 1 ELSE plainTurns
    /\ UNCHANGED <<state, steps, rounds, arg, turn, produced, llm_input,
                   invocations, serverVars, indexVars>>

\* agent.invoke raised (the runtime's step limit): lines 424-426.
Except ==
    /\ pc \in {"agent", "tools", "response"}
    /\ OutOfSteps(steps)
    /\ ret' = ExceptValue(arg.history)
    /\ history' = ret'.updated_history
    /\ pc' = "idle"
    /\ UNCHANGED <<state, steps, rounds, arg, turn, produced, llm_input,
                   invocations, plainTurns, serverVars, indexVars>>

NextAgent == Call \/ AgentStep \/ ToolStep \/ ResponseStep \/ Return \/ Except

-----------------------------------------------------------------------------
(* The tool layer (src/tools/search_sop.py) and the retriever                *)
(* (src/services/sop_service.py)                                             *)

\* Calls a worker thread makes, and the largest SOP_RETRIEVAL_TOP_K tried.
MaxCalls == 2
MaxTopK == 2

\* Text is a sequence of tokens; " " and "\n" are the whitespace tokens.
Whitespace == {" ", "\n"}

RECURSIVE lstrip(_)
lstrip(s) == IF s # <<>> /\ s[1] \in Whitespace THEN lstrip(Tail(s)) ELSE s

RECURSIVE rstrip(_)
rstrip(s) ==
    IF s # <<>> /\ s[Len(s)] \in Whitespace
    THEN rstrip(SubSeq(s, 1, Len(s) - 1))
    ELSE s

\* str.strip(): leading and trailing whitespace removed.
strip(s) == rstrip(lstrip(s))

\* sep.join(parts)
RECURSIVE join(_, _)
join(sep, parts) ==
    IF parts = <<>> THEN <<>>
    ELSE IF Len(parts) = 1 THEN parts[1]
    ELSE parts[1] \o sep \o join(sep, Tail(parts))

\* A langchain Document; a chunk_id of None stands for metadata without
\* that key.
Document(chunk_id, page_content) ==
    [metadata |-> [chunk_id |-> chunk_id], page_content |-> page_content]

Doc1 == Document("chunk_001", <<"\n", "walk-ins", " ", "welcome", " ">>)
Doc2 == Document("chunk_002", <<"late", "\n", "policy">>)
Doc3 == Document(None, <<" ", "hold", "\n">>)

\* Contents of the index directory that are tried.
Indexes == { {}, {Doc1}, {Doc1, Doc2, Doc3} }

\* retriever.invoke(query) on a similarity retriever with search_kwargs k:
\* the k documents nearest to the query, nearest first (all of them when
\* the index holds fewer). Which ones are nearest is left open.
Rankings(docs, k) ==
    LET n == IF k < Cardinality(docs) THEN k ELSE Cardinality(docs)
    IN { r \in [1..n -> docs] : \A i, j \in 1..n : i # j => r[i] # r[j] }

Separator == <<"\n", "\n", "---", "\n", "\n">>

\* search_sop.py:67: doc.metadata.get("chunk_id", f"result_{i}")
ChunkId(doc, i) ==
    IF doc.metadata.chunk_id = None
    THEN <<"result_", ToString(i)>>
    ELSE <<doc.metadata.chunk_id>>

\* A search tool that lists the documents last to first.
search_sop_tool_reversed(query, documents) ==
    IF documents = <<>>
    THEN <<"No relevant procedures found for this query.">>
    ELSE LET n == Len(documents)
             results == [i \in 1..n |->
                 <<"[">> \o ChunkId(documents[n + 1 - i], i) \o <<"]", "\n">>
                     \o strip(documents[n + 1 - i].page_content)]
         IN join(Separator, results)

\* search_sop.py:61-74, given the documents search_sop(query) returned.
search_sop_tool(query, documents) ==
    IF documents = <<>>
    THEN <<"No relevant procedures found for this query.">>
    ELSE LET results == [i \in 1..Len(documents) |->
                 <<"[">> \o ChunkId(documents[i], i) \o <<"]", "\n">>
                     \o strip(documents[i].page_content)]
         IN join(Separator, results)

\* search_sop.py:105-118
topic_queries ==
    [t \in {"greeting", "scheduling", "cancellation", "reschedule", "walk-in",
            "directions", "wait times", "late arrival", "online booking",
            "closing", "hold", "communication"} |->
        CASE t = "greeting" -> "greeting caller opening phone answer"
          [] t = "scheduling" -> "schedule new appointment booking"
          [] t = "cancellation" -> "cancel appointment cancellation"
          [] t = "reschedule" -> "reschedule change appointment"
          [] t = "walk-in" -> "walk-in without appointment availability"
          [] t = "directions" -> "directions location clinic address"
          [] t = "wait times" -> "wait time current delay how long"
          [] t = "late arrival" -> "late arrival 15 minute policy running late"
          [] t = "online booking" -> "online website scheduling book appointment"
          [] t = "closing" -> "closing end call goodbye hang up"
          [] t = "hold" -> "hold waiting please hold"
          [] t = "communication" -> "communication guidelines tone professional"]

\* Topics a caller of get_procedure passes: a key of the table, keys in
\* other letter case, and a topic outside the table.
Topics == {"late arrival", "Late Arrival", "HOLD", "parking"}

\* str.lower() on the topics above.
lower(t) ==
    CASE t = "Late Arrival" -> "late arrival"
      [] t = "HOLD" -> "hold"
      [] OTHER -> t

\* A lookup that never rewrites.
SearchQuery_raw(topic) == topic

\* search_sop.py:121: topic_queries.get(topic.lower(), topic)
SearchQuery(topic) ==
    IF lower(topic) \in DOMAIN topic_queries
    THEN topic_queries[lower(topic)]
    ELSE topic

\* search_sop.py:124-132, given the documents search_sop(search_query)
\* returned.
get_procedure(topic, documents) ==
    IF documents = <<>>
    THEN <<"No procedure found for topic: ", topic>>
    ELSE <<"Procedure for '", topic, "':", "\n", "\n">>
            \o strip(documents[1].page_content)

\* Queries a caller of search_sop_tool passes.
ToolQueries == {"Do you accept walk-ins?"}

Workers == {1, 2}

\* _vectorstore = None (sop_service.py:100); a loaded instance carries the
\* number of the load that made it.
NotLoaded == [instance |-> 0]

NoResult == [kind |-> "none"]

IdleWorker(calls) ==
    [pc |-> "idle", tool |-> None, input |-> None, search_query |-> None,
     vs |-> NotLoaded, k |-> 0, documents |-> <<>>, result |-> NoResult,
     calls |-> calls]

\* EmbeddingsService.MAX_RETRIES, RETRY_DELAY (seconds)
MAX_RETRIES == 3
RETRY_DELAY == 2

\* Most documents the data directory holds.
MaxDocuments == 2

\* Most chunks the splitter makes of one document.
MaxChunks == 3

\* The files of the index directory: each is absent, left by an earlier
\* build ("old"), written whole by this build ("new"), or written in part
\* by this build ("partial").
IndexDir(file) ==
    [faiss |-> IF file THEN "old" ELSE "absent",
     pkl |-> IF file THEN "old" ELSE "absent",
     info |-> IF file THEN "old" ELSE "absent"]

\* No manifest has been generated.
NoInfo ==
    [sources |-> <<>>, statistics |-> [total_documents |-> 0, total_chunks |-> 0,
                                       total_characters |-> 0],
     source_distribution |-> <<>>, chunks |-> <<>>]

\* No build has been started; file tells whether an earlier build left an
\* index.
NoBuild(file) ==
    [pc |-> "idle", doc_paths |-> <<>>, failing |-> {}, documents |-> <<>>,
     chunks |-> <<>>, attempt |-> 0, tries |-> <<>>, waited |-> 0,
     embeddings |-> "unset", vectorstore |-> FALSE, vectors |-> 0,
     saved |-> FALSE, dir |-> IndexDir(file), step |-> 0, result |-> "none",
     index_info |-> NoInfo]

\* No tool call is under way; the index is on disk and not loaded yet.
InitIndexAtRest ==
    /\ build = NoBuild(TRUE)
    /\ index_file = TRUE
    /\ index_docs = {Doc1, Doc2, Doc3}
    /\ top_k = 1
    /\ vectorstore = NotLoaded
    /\ loads = 0
    /\ workers = [w \in Workers |-> IdleWorker(0)]

\* Histories a first call can be given: none, an earlier exchange, and one
\* that holds a system message.
InitialHistories ==
    { <<>>,
      <<HumanMessage(<<0, 1>>, "old q"), AIMessage(<<0, 2>>, "old a", <<>>)>>,
      <<SystemMessage(<<0, 1>>, "old system"), HumanMessage(<<0, 2>>, "old q")>> }

\* server.py:39: the registry starts empty; no request has been received.
InitServer ==
    /\ conversation_sessions = <<>>
    /\ reqs = <<>>
    /\ received = [s \in {"default", "s1"} |-> <<>>]
    /\ active_calls = <<>>
    /\ context_store = <<>>
    /\ call_tasks = <<>>

InitAgent ==
    /\ pc = "idle"
    /\ state = NoState
    /\ steps = 0
    /\ rounds = 0
    /\ arg = NoArg
    /\ ret = NoReturn
    /\ turn = 0
    /\ produced = <<>>
    /\ llm_input = <<>>
    /\ invocations = <<>>
    /\ plainTurns = 0

\* A new conversation: the caller starts from an empty history.
Init == InitAgent /\ history = <<>> /\ InitServer /\ InitIndexAtRest

\* run_agent_with_history called on any history.
InitAny == InitAgent /\ history \in InitialHistories /\ InitServer /\ InitIndexAtRest

Spec == Init /\ [][NextAgent]_vars

SpecAny == InitAny /\ [][NextAgent]_vars

----------------------------------------------------------------------------
(* run_agent_with_history as a function of the model's and tools' behaviour *)

\* Behaviours of the model over one run, as the server's requests meet
\* them: a plain answer, or a tool request at every invocation (the tools
\* succeed).
Behaviours == {"answer", "tools_forever"}

\* What the model does at the step-th super-step under behaviour b.
ModelAt(b, step) ==
    IF b = "tools_forever"
    THEN [kind |-> "reply", content |-> "", tool_calls |-> <<"search_sop_tool">>]
    ELSE [kind |-> "reply", content |-> "answer", tool_calls |-> <<>>]

\* agent.invoke(state): the nodes run along the edges until END, or until
\* the runtime's steps are used up, when it raises.
RECURSIVE Invoke(_, _, _, _, _)
Invoke(st, node, n, b, tag) ==
    IF node = "END" THEN [raised |-> FALSE, state |-> st]
    ELSE IF OutOfSteps(n) THEN [raised |-> TRUE, state |-> st]
    ELSE LET upd == CASE node = "agent" -> agent_node(st, ModelAt(b, n + 1), tag)
                      [] node = "tools" -> tool_node(st, "ok", tag)
                      [] node = "response" -> response_node(st)
             next == ApplyUpdate(st, upd)
         IN Invoke(next, NextNode(node, next), n + 1, b, tag)

run_agent_with_history(query, hist, b, tag) ==
    LET initial == ApplyUpdate(NoState, AgentState(InitialMessages(tag, query, hist), query))
        result == Invoke(initial, "agent", 0, b, tag)
    IN IF result.raised THEN ExceptValue(hist) ELSE ReturnValue(result.state)

----------------------------------------------------------------------------
(* server.py: the session registry and its endpoints *)

\* Requests the server receives.
MaxRequests == 2

\* Session ids a request can name; "default" is what data.get gives a request
\* that names none.
SessionIds == {"default", "s1"}

\* The "message" of a request ("" also stands for a missing one).
UserInputs == {"hello", ""}

\* get_or_create_session: the registry after the call (the call returns
\* its entry for session_id).
get_or_create_session(sessions, session_id) ==
    IF session_id \notin DOMAIN sessions
    THEN [s \in DOMAIN sessions \cup {session_id} |->
            IF s = session_id THEN <<>> ELSE sessions[s]]
    ELSE sessions

\* clear_session: the registry after the call.
clear_session(sessions, session_id) ==
    IF session_id \in DOMAIN sessions
    THEN [s \in DOMAIN sessions \ {session_id} |-> sessions[s]]
    ELSE sessions

\* A store that writes the history under every session id.
StoreSession_all(sessions, session_id, updated_history) ==
    [s \in DOMAIN sessions \cup {session_id} |-> updated_history]

\* conversation_sessions[session_id] = updated_history
StoreSession(sessions, session_id, updated_history) ==
    [s \in DOMAIN sessions \cup {session_id} |->
        IF s = session_id THEN updated_history ELSE sessions[s]]

SetReq(r, new) == [reqs EXCEPT ![r] = new]

\* An endpoint that takes every message, the empty one too.
NoMessage_never(user_input) == FALSE

\* server.py:148, 181: if not user_input
NoMessage(user_input) == user_input = ""

\* chat_endpoint / voice_response_endpoint up to their await: the request is
\* read, an empty message is answered at once, otherwise the session's
\* history is fetched and the agent run is handed to a worker thread.
Receive(kind) ==
    /\ Len(reqs) < MaxRequests
    /\ \E session_id \in SessionIds, user_input \in UserInputs :
         LET r == Len(reqs) + 1
             base == [kind |-> kind, session_id |-> session_id,
                      user_input |-> user_input]
         IN IF NoMessage(user_input)
            THEN /\ reqs' = Append(reqs, base @@
                        [pc |-> "done", history |-> <<>>, result |-> NoReturn,
                         reply |-> [error |-> "No message provided"]])
                 /\ UNCHANGED <<conversation_sessions, received>>
            ELSE /\ conversation_sessions' =
                        get_or_create_session(conversation_sessions, session_id)
                 /\ reqs' = Append(reqs, base @@
                        [pc |-> "thread",
                         history |-> conversation_sessions'[session_id],
                         result |-> NoReturn, reply |-> <<>>])
                 /\ received' = [received EXCEPT ![session_id] = Append(@, r)]
    /\ UNCHANGED <<agentVars, indexVars, voiceVars>>

chat_endpoint_receive == Receive("chat")

voice_response_endpoint_receive == Receive("voice")

\* The worker thread of asyncio.to_thread runs run_agent_with_history on the
\* message and on the history list the request fetched.
ThreadRun(r) ==
    /\ reqs[r].pc = "thread"
    /\ \E b \in Behaviours :
         reqs' = SetReq(r, [reqs[r] EXCEPT
                    !.result = run_agent_with_history(reqs[r].user_input,
                                                      reqs[r].history, b, r),
                    !.pc = "resume"])
    /\ UNCHANGED <<conversation_sessions, received, agentVars, indexVars, voiceVars>>

\* chat_endpoint after its await: lines 163-171.
chat_endpoint_resume(r) ==
    /\ reqs[r].pc = "resume"
    /\ reqs[r].kind = "chat"
    /\ conversation_sessions' = StoreSession(conversation_sessions,
            reqs[r].session_id, reqs[r].result.updated_history)
    /\ reqs' = SetReq(r, [reqs[r] EXCEPT
            !.pc = "done",
            !.reply = [message |-> reqs[r].user_input,
                       response |-> reqs[r].result.response,
                       session_id |-> reqs[r].session_id,
                       history_length |-> Len(reqs[r].result.updated_history)]])
    /\ UNCHANGED <<received, agentVars, indexVars, voiceVars>>

\* voice_response_endpoint after its await: lines 194-217; speech synthesis
\* returns audio or raises.
voice_response_endpoint_resume(r) ==
    /\ reqs[r].pc = "resume"
    /\ reqs[r].kind = "voice"
    /\ conversation_sessions' = StoreSession(conversation_sessions,
            reqs[r].session_id, reqs[r].result.updated_history)
    /\ \E tts \in {"ok", "raise"} :
         reqs' = SetReq(r, [reqs[r] EXCEPT
            !.pc = "done",
            !.reply = IF tts = "ok"
                      THEN [text |-> reqs[r].result.response,
                            audio |-> "base64 audio",
                            audio_format |-> "mp3",
                            session_id |-> reqs[r].session_id,
                            history_length |-> Len(reqs[r].result.updated_history)]
                      ELSE [text |-> reqs[r].result.response,
                            audio |-> None,
                            error |-> "tts error",
                            session_id |-> reqs[r].session_id]])
    /\ UNCHANGED <<received, agentVars, indexVars, voiceVars>>

\* new_session_endpoint: a fresh session id gets an empty history.
new_session_endpoint ==
    /\ \E session_id \in SessionIds \ (DOMAIN conversation_sessions \cup {"default"}) :
         /\ conversation_sessions' = StoreSession(conversation_sessions, session_id, <<>>)
         /\ received' = [received EXCEPT ![session_id] = <<>>]
    /\ UNCHANGED <<reqs, agentVars, indexVars, voiceVars>>

\* clear_session_endpoint
clear_session_endpoint ==
    /\ \E session_id \in SessionIds :
         /\ conversation_sessions' = clear_session(conversation_sessions, session_id)
         /\ received' = [received EXCEPT ![session_id] = <<>>]
    /\ UNCHANGED <<reqs, agentVars, indexVars, voiceVars>>

NextServer ==
    \/ chat_endpoint_receive
    \/ voice_response_endpoint_receive
    \/ \E r \in 1..Len(reqs) : ThreadRun(r)
    \/ \E r \in 1..Len(reqs) : chat_endpoint_resume(r)
    \/ \E r \in 1..Len(reqs) : voice_response_endpoint_resume(r)
    \/ new_session_endpoint
    \/ clear_session_endpoint

SpecServer == Init /\ [][NextServer]_vars

-----------------------------------------------------------------------------
(* Tool calls on worker threads: search_sop_tool / get_procedure ->          *)
(* search_sop -> get_retriever -> get_vectorstore -> retriever.invoke        *)

\* A vectorstore that is loaded at every call.
NeedsLoad_always(vs) == TRUE

\* sop_service.py:112: if _vectorstore is None
NeedsLoad(vs) == vs = NotLoaded

\* An index file that is taken to be there.
IndexMissing_never(file) == FALSE

\* sop_service.py:115: if not (index_path / "index.faiss").exists()
IndexMissing(file) == ~file

Raised(exc) == [kind |-> "raise", exc |-> exc]
Returned_(value) == [kind |-> "return", value |-> value]

SetWorker(w, rec) == workers' = [workers EXCEPT ![w] = rec]

\* The model's tool call reaches the tool: search_sop.py:61 / 121-124.
tool_invoke(w) ==
    /\ workers[w].pc = "idle"
    /\ workers[w].calls < MaxCalls
    /\ \/ \E q \in ToolQueries :
            SetWorker(w, [workers[w] EXCEPT !.pc = "get_vectorstore",
                              !.tool = "search_sop_tool", !.input = q,
                              !.search_query = q])
       \/ \E t \in Topics :
            SetWorker(w, [workers[w] EXCEPT !.pc = "get_vectorstore",
                              !.tool = "get_procedure", !.input = t,
                              !.search_query = SearchQuery(t)])
    /\ UNCHANGED <<index_file, index_docs, top_k, vectorstore, loads>>
    /\ UNCHANGED <<agentVars, serverVars, build>>

\* get_vectorstore, line 112.
get_vectorstore_check(w) ==
    /\ workers[w].pc = "get_vectorstore"
    /\ SetWorker(w, [workers[w] EXCEPT
            !.pc = IF NeedsLoad(vectorstore) THEN "exists" ELSE "return"])
    /\ UNCHANGED <<index_file, index_docs, top_k, vectorstore, loads>>
    /\ UNCHANGED <<agentVars, serverVars, build>>

\* get_vectorstore, lines 113-116; the FileNotFoundError passes through
\* get_retriever, search_sop and the tool function, none of which catches.
get_vectorstore_exists(w) ==
    /\ workers[w].pc = "exists"
    /\ IF IndexMissing(index_file)
       THEN SetWorker(w, [workers[w] EXCEPT !.pc = "done",
                              !.result = Raised("FileNotFoundError")])
       ELSE SetWorker(w, [workers[w] EXCEPT !.pc = "load"])
    /\ UNCHANGED <<index_file, index_docs, top_k, vectorstore, loads>>
    /\ UNCHANGED <<agentVars, serverVars, build>>

\* get_vectorstore, lines 120-126: FAISS.load_local builds a new instance,
\* which is stored in the module's global.
get_vectorstore_load(w) ==
    /\ workers[w].pc = "load"
    /\ loads' = loads + 1
    /\ vectorstore' = [instance |-> loads + 1]
    /\ SetWorker(w, [workers[w] EXCEPT !.pc = "return"])
    /\ UNCHANGED <<index_file, index_docs, top_k>>
    /\ UNCHANGED <<agentVars, serverVars, build>>

\* get_vectorstore, line 130: return _vectorstore
get_vectorstore_return(w) ==
    /\ workers[w].pc = "return"
    /\ SetWorker(w, [workers[w] EXCEPT !.pc = "invoke", !.vs = vectorstore])
    /\ UNCHANGED <<index_file, index_docs, top_k, vectorstore, loads>>
    /\ UNCHANGED <<agentVars, serverVars, build>>

\* sop_service.py:148: k = top_k or config["top_k"]. An argument of None is
\* written 0, which `or` treats alike.
RetrieverK(arg_top_k, config_top_k) ==
    IF arg_top_k = 0 THEN config_top_k ELSE arg_top_k

\* The top_k argument a tool passes to search_sop: both tools call
\* search_sop with the query alone (search_sop.py:62, 124).
ToolTopK(tool) == 0

\* get_retriever lines 147-156 and search_sop lines 176-181, then the rest
\* of the tool function on the documents found.
retriever_invoke(w) ==
    /\ workers[w].pc = "invoke"
    /\ \E documents \in Rankings(index_docs,
                                  RetrieverK(ToolTopK(workers[w].tool), top_k)) :
         SetWorker(w, [workers[w] EXCEPT
            !.pc = "done",
            !.k = RetrieverK(ToolTopK(workers[w].tool), top_k),
            !.documents = documents,
            !.result = Returned_(
                IF workers[w].tool = "search_sop_tool"
                THEN search_sop_tool(workers[w].input, documents)
                ELSE get_procedure(workers[w].input, documents))])
    /\ UNCHANGED <<index_file, index_docs, top_k, vectorstore, loads>>
    /\ UNCHANGED <<agentVars, serverVars, build>>

\* The tool call is over; the thread is free for the next one.
tool_return(w) ==
    /\ workers[w].pc = "done"
    /\ SetWorker(w, IdleWorker(workers[w].calls + 1))
    /\ UNCHANGED <<index_file, index_docs, top_k, vectorstore, loads>>
    /\ UNCHANGED <<agentVars, serverVars, build>>

NextTools ==
    \/ \E w \in Workers : tool_invoke(w)
    \/ \E w \in Workers : get_vectorstore_check(w)
    \/ \E w \in Workers : get_vectorstore_exists(w)
    \/ \E w \in Workers : get_vectorstore_load(w)
    \/ \E w \in Workers : get_vectorstore_return(w)
    \/ \E w \in Workers : retriever_invoke(w)
    \/ \E w \in Workers : tool_return(w)

\* The index directory holds an index or not; SOP_RETRIEVAL_TOP_K is set to
\* some positive number; nothing is loaded yet.
InitTools ==
    /\ InitAgent /\ history = <<>> /\ InitServer
    /\ index_file \in BOOLEAN
    /\ index_docs \in Indexes
    /\ top_k \in 1..MaxTopK
    /\ vectorstore = NotLoaded
    /\ loads = 0
    /\ workers = [w \in Workers |-> IdleWorker(0)]
    /\ build = NoBuild(index_file)

SpecTools == InitTools /\ [][NextTools]_vars

-----------------------------------------------------------------------------
(* The index build: SOPIndexer.run and EmbeddingsService.initialize          *)
(* (scripts/create_sop_index.py)                                             *)

\* What one attempt of initialize meets: the constructor raises, embed_query
\* raises, embed_query gives an empty embedding, or a non-empty one.
AttemptOutcomes == {"constructor raises", "embed_query raises", "empty", "ok"}

\* A run that goes on to save the index whatever failed.
Abort_and_save(b) == [b EXCEPT !.pc = "save"]

\* run returns False at once (lines 636, 647, 656, 672, 678, 683, 688).
Abort(b) == [b EXCEPT !.pc = "done", !.result = "False"]

\* Line 337: range(1, self.MAX_RETRIES + 1) is at its last value.
LastAttempt(attempt) == attempt >= MAX_RETRIES

\* The data directory's *.docx and *.doc files, in the order
\* find_documents lists them (lines 157-159).
DataFiles == <<"sop.docx", "faq.docx", "hours.doc", "notes.doc">>

\* A loader that gives up at the first document it cannot load.
load_stop_at_failure(doc_paths, failing) ==
    LET bad == {i \in 1..Len(doc_paths) : doc_paths[i] \in failing}
        firstBad == IF bad = {} THEN Len(doc_paths) + 1
                    ELSE CHOOSE i \in bad : \A j \in bad : i <= j
    IN [i \in 1..(firstBad - 1) |-> [source |-> doc_paths[i]]]

\* MultiDocumentLoader.load (lines 180-207): the documents of the paths
\* whose Docx2txtLoader does not raise, in the order of the paths.
RECURSIVE load(_, _)
load(doc_paths, failing) ==
    IF doc_paths = <<>> THEN <<>>
    ELSE (IF Head(doc_paths) \in failing
          THEN <<>>
          ELSE <<[source |-> Head(doc_paths)]>>)
            \o load(Tail(doc_paths), failing)

\* A text of n characters.
Text(n) == [k \in 1..n |-> "x"]

\* TextChunker.chunk (lines 247-265): splitter.split_documents gives each
\* document's chunks, document after document; counts[d] is the number of
\* chunks of document d, whose j-th chunk is taken to hold j characters.
RECURSIVE split_documents(_, _, _)
split_documents(documents, counts, d) ==
    IF d > Len(documents) THEN <<>>
    ELSE [j \in 1..counts[d] |->
            [page_content |-> Text(j),
             metadata |-> [source |-> documents[d].source]]]
         \o split_documents(documents, counts, d + 1)

\* Line 302: f"chunk_{i+1:03d}"
chunk_id(i) ==
    LET n == i + 1
    IN <<"chunk_", ToString(n \div 100), ToString((n \div 10) % 10),
         ToString(n % 10)>>

\* Lines 289-296: position_pct = (i / total_chunks) * 100 against 20 and 80.
position(i, total_chunks) ==
    IF i * 100 < 20 * total_chunks THEN "beginning"
    ELSE IF i * 100 > 80 * total_chunks THEN "end"
    ELSE "middle"

\* An enricher that counts each chunk's words where it should count its
\* characters.
enrich_counting_words(chunks) ==
    [k \in 1..Len(chunks) |->
        [page_content |-> chunks[k].page_content,
         metadata |-> [chunk_id |-> chunk_id(k - 1),
                       index |-> k,
                       total_chunks |-> Len(chunks),
                       char_count |-> 1,
                       position |-> position(k - 1, Len(chunks)),
                       source |-> chunks[k].metadata.source]]]

\* MetadataEnricher.enrich (lines 278-316); i of the code is k - 1.
enrich(chunks) ==
    [k \in 1..Len(chunks) |->
        [page_content |-> chunks[k].page_content,
         metadata |-> [chunk_id |-> chunk_id(k - 1),
                       index |-> k,
                       total_chunks |-> Len(chunks),
                       char_count |-> Len(chunks[k].page_content),
                       position |-> position(k - 1, Len(chunks)),
                       source |-> chunks[k].metadata.source]]]

\* run, steps 0-1 (lines 631-647): the configuration is validated and the
\* documents of the data directory are discovered.
run_discover ==
    /\ build.pc = "idle"
    /\ \E valid \in BOOLEAN, found \in 0..MaxDocuments :
         LET doc_paths == SubSeq(DataFiles, 1, found)
         IN build' = IF ~valid
                     THEN Abort([build EXCEPT !.step = 0])
                     ELSE IF doc_paths = <<>>
                     THEN Abort([build EXCEPT !.step = 1])
                     ELSE [build EXCEPT !.pc = "load", !.step = 1,
                                        !.doc_paths = doc_paths]
    /\ UNCHANGED <<index_file, index_docs, top_k, vectorstore, loads, workers>>
    /\ UNCHANGED <<agentVars, serverVars>>

\* run, step 2 (lines 649-656): the documents are loaded; failing are the
\* paths whose loader raises.
run_load ==
    /\ build.pc = "load"
    /\ \E failing \in SUBSET {build.doc_paths[i] : i \in 1..Len(build.doc_paths)} :
         LET documents == load(build.doc_paths, failing)
             b == [build EXCEPT !.step = 2, !.failing = failing,
                                !.documents = documents]
         IN build' = IF documents = <<>>
                     THEN Abort(b)
                     ELSE [b EXCEPT !.pc = "chunk"]
    /\ UNCHANGED <<index_file, index_docs, top_k, vectorstore, loads, workers>>
    /\ UNCHANGED <<agentVars, serverVars>>

\* run, steps 3-4 (lines 658-666): the documents are chunked and the chunks
\* enriched; step 5 follows.
run_chunk ==
    /\ build.pc = "chunk"
    /\ \E counts \in [1..Len(build.documents) -> 0..MaxChunks] :
         build' = [build EXCEPT
                     !.pc = "initialize", !.step = 4, !.attempt = 1,
                     !.chunks = enrich(split_documents(build.documents, counts, 1))]
    /\ UNCHANGED <<index_file, index_docs, top_k, vectorstore, loads, workers>>
    /\ UNCHANGED <<agentVars, serverVars>>

\* initialize, one pass of the loop body (lines 337-359); after the last
\* pass the loop ends, initialize returns False (lines 361-362) and run
\* returns False (lines 671-672).
initialize_attempt ==
    /\ build.pc = "initialize"
    /\ \E out \in AttemptOutcomes :
         LET b == [build EXCEPT
                     !.tries = Append(@, out),
                     !.embeddings = IF out = "constructor raises" THEN @ ELSE "set"]
         IN build' =
              IF out = "ok"
              THEN [b EXCEPT !.pc = "create"]
              ELSE IF out = "empty"
              THEN IF LastAttempt(build.attempt)
                   THEN Abort(b)
                   ELSE [b EXCEPT !.attempt = @ + 1]
              ELSE IF build.attempt < MAX_RETRIES
                   THEN [b EXCEPT !.pc = "sleep"]
                   ELSE IF LastAttempt(build.attempt)
                        THEN Abort(b)
                        ELSE [b EXCEPT !.attempt = @ + 1]
    /\ UNCHANGED <<index_file, index_docs, top_k, vectorstore, loads, workers>>
    /\ UNCHANGED <<agentVars, serverVars>>

\* initialize, line 359: time.sleep(self.RETRY_DELAY), then the next pass.
initialize_sleep ==
    /\ build.pc = "sleep"
    /\ build' = [build EXCEPT !.pc = "initialize", !.attempt = @ + 1,
                              !.waited = @ + RETRY_DELAY]
    /\ UNCHANGED <<index_file, index_docs, top_k, vectorstore, loads, workers>>
    /\ UNCHANGED <<agentVars, serverVars>>

\* run, step 6 (lines 674-678) with FAISSIndexService.create (lines
\* 380-401): FAISS.from_documents embeds every chunk, one vector each, and
\* raises when there is no chunk.
run_create ==
    /\ build.pc = "create"
    /\ \E ok \in BOOLEAN :
         build' = IF ok /\ build.chunks # <<>>
                  THEN [build EXCEPT !.pc = "save", !.step = 6,
                                     !.vectorstore = TRUE,
                                     !.vectors = Len(build.chunks)]
                  ELSE Abort([build EXCEPT !.step = 6])
    /\ UNCHANGED <<index_file, index_docs, top_k, vectorstore, loads, workers>>
    /\ UNCHANGED <<agentVars, serverVars>>

\* What save_local meets: it writes index.faiss, then index.pkl; the
\* directory cannot be made, or one of the two writes raises under way.
SaveOutcomes == {"ok", "mkdir raises", "index.faiss raises", "index.pkl raises"}

\* FAISSIndexService.save (lines 403-421): the files of the directory after
\* the call.
save(dir, out) ==
    CASE out = "ok" -> [dir EXCEPT !.faiss = "new", !.pkl = "new"]
      [] out = "mkdir raises" -> dir
      [] out = "index.faiss raises" -> [dir EXCEPT !.faiss = "partial"]
      [] out = "index.pkl raises" -> [dir EXCEPT !.faiss = "new", !.pkl = "partial"]

\* run, step 7 (lines 680-683).
run_save ==
    /\ build.pc = "save"
    /\ \E out \in SaveOutcomes :
         LET b == [build EXCEPT !.step = 7, !.dir = save(build.dir, out)]
         IN /\ build' = IF out = "ok"
                        THEN [b EXCEPT !.pc = "validate", !.saved = TRUE]
                        ELSE Abort(b)
            /\ index_file' = (b.dir.faiss # "absent")
    /\ UNCHANGED <<index_docs, top_k, vectorstore, loads, workers>>
    /\ UNCHANGED <<agentVars, serverVars>>

\* run, step 8 (lines 685-688) with FAISSIndexService.validate (lines
\* 423-434).
run_validate ==
    /\ build.pc = "validate"
    /\ build' = IF build.dir.faiss = "absent" \/ build.dir.pkl = "absent"
                THEN Abort([build EXCEPT !.step = 8])
                ELSE [build EXCEPT !.pc = "finish", !.step = 8]
    /\ UNCHANGED <<index_file, index_docs, top_k, vectorstore, loads, workers>>
    /\ UNCHANGED <<agentVars, serverVars>>

RECURSIVE sum(_)
sum(numbers) == IF numbers = <<>> THEN 0 ELSE Head(numbers) + sum(Tail(numbers))

\* Lines 458-462: how many chunks each source has, for the sources that
\* have any.
SourceDistribution(chunks) ==
    [source \in {chunks[k].metadata.source : k \in 1..Len(chunks)} |->
        Cardinality({k \in 1..Len(chunks) : chunks[k].metadata.source = source})]

\* dict.get(key, default)
get(dict, key, default) == IF key \in DOMAIN dict THEN dict[key] ELSE default

\* str(p) of a path of the data directory, against its p.name.
PathString(name) == <<"data", "/", name>>

\* A generator that looks the sources up by their path.
generate_by_path(chunks, doc_paths) ==
    LET source_dist == SourceDistribution(chunks)
        char_counts == [k \in 1..Len(chunks) |-> chunks[k].metadata.char_count]
    IN [sources |-> [i \in 1..Len(doc_paths) |->
                        [name |-> doc_paths[i], path |-> PathString(doc_paths[i]),
                         chunks |-> get(source_dist, PathString(doc_paths[i]), 0)]],
        statistics |-> [total_documents |-> Len(doc_paths),
                        total_chunks |-> Len(chunks),
                        total_characters |-> sum(char_counts)],
        source_distribution |-> source_dist,
        chunks |-> [k \in 1..Len(chunks) |->
                        [id |-> chunks[k].metadata.chunk_id,
                         source |-> chunks[k].metadata.source,
                         chars |-> chunks[k].metadata.char_count,
                         position |-> chunks[k].metadata.position]]]

\* IndexInfoGenerator.generate (lines 451-507), without the settings, the
\* times and the word counts.
generate(chunks, doc_paths) ==
    LET source_dist == SourceDistribution(chunks)
        char_counts == [k \in 1..Len(chunks) |-> chunks[k].metadata.char_count]
    IN [sources |-> [i \in 1..Len(doc_paths) |->
                        [name |-> doc_paths[i], path |-> PathString(doc_paths[i]),
                         chunks |-> get(source_dist, doc_paths[i], 0)]],
        statistics |-> [total_documents |-> Len(doc_paths),
                        total_chunks |-> Len(chunks),
                        total_characters |-> sum(char_counts)],
        source_distribution |-> source_dist,
        chunks |-> [k \in 1..Len(chunks) |->
                        [id |-> chunks[k].metadata.chunk_id,
                         source |-> chunks[k].metadata.source,
                         chars |-> chunks[k].metadata.char_count,
                         position |-> chunks[k].metadata.position]]]

\* What steps 9 and 10 meet: the retrieval test raises, or it passes and
\* the manifest is written or its writing raises.
FinishOutcomes == {"test raises", "manifest written", "manifest raises"}

\* IndexInfoGenerator.save (lines 509-523): False when open or json.dump
\* raises, the file then being left in part.
info_save(dir, out) ==
    IF out = "manifest written"
    THEN [dir EXCEPT !.info = "new"]
    ELSE [dir EXCEPT !.info = "partial"]

\* run, steps 9-10 (lines 690-721): an exception of the retrieval test
\* leaves run; the value of info_generator.save is not looked at.
run_finish ==
    /\ build.pc = "finish"
    /\ \E out \in FinishOutcomes :
         build' = IF out = "test raises"
                  THEN [build EXCEPT !.pc = "done", !.step = 9, !.result = "raise"]
                  ELSE [build EXCEPT !.pc = "done", !.step = 10,
                                     !.index_info = generate(build.chunks,
                                                             build.doc_paths),
                                     !.dir = info_save(build.dir, out),
                                     !.result = "True"]
    /\ UNCHANGED <<index_file, index_docs, top_k, vectorstore, loads, workers>>
    /\ UNCHANGED <<agentVars, serverVars>>

NextBuild ==
    \/ run_discover
    \/ run_load
    \/ run_chunk
    \/ initialize_attempt
    \/ initialize_sleep
    \/ run_create
    \/ run_save
    \/ run_validate
    \/ run_finish

\* The build starts with or without an index of an earlier build on disk.
InitBuild ==
    /\ InitAgent /\ history = <<>> /\ InitServer
    /\ index_file \in BOOLEAN
    /\ index_docs = {}
    /\ top_k = 1
    /\ vectorstore = NotLoaded
    /\ loads = 0
    /\ workers = [w \in Workers |-> IdleWorker(0)]
    /\ build = NoBuild(index_file)

SpecBuild == InitBuild /\ [][NextBuild]_vars

----------------------------------------------------------------------------
(* Properties of the agent graph *)

Fallback == get_prompt("error")

\* A call has returned and no other has started.
Returned == pc = "idle" /\ turn > 0

IsList(s) == DOMAIN s = 1..Len(s)

\* C1: run_agent_with_history never raises: a run is always at a node of the
\* graph or at its end, from where it steps or returns (an exception of the
\* model, of a tool or of the runtime is caught on the way), and what is
\* returned is a pair of a non-empty string and a list, whatever the query,
\* the history and the behaviour of the model and of the tools.
C1_NeverRaises ==
    /\ pc \in {"idle", "agent", "tools", "response", "END"}
    /\ pc \in {"agent", "tools", "response"} => state.messages # <<>>
    /\ Returned => /\ ret.response \in STRING
                   /\ ret.response # ""
                   /\ ret.response # None
                   /\ IsList(ret.updated_history)

\* A turn given a history with a system message, whose model replied with an
\* empty text, has returned the fallback.
C1_Witness ==
    /\ Returned
    /\ \E i \in 1..Len(arg.history) : arg.history[i].role = "system"
    /\ produced # <<>> /\ Last(produced).role = "ai" /\ Last(produced).content = ""
    /\ ret.response = Fallback

\* C2: when the model invocation raised during a turn, the turn's response is
\* the fallback text; in the terminal state of a turn whose error is set,
\* response is the fallback text.
C2_ModelErrorGivesFallback ==
    /\ (pc = "END" /\ state.error # None) => state.response = Fallback
    /\ (Returned /\ state.error = "model error") => ret.response = Fallback

\* C3: when executing a requested tool raised during a turn, the response
\* returned for the turn is the fallback text, not a later model output.
C3_ToolErrorGivesFallback ==
    (Returned /\ state.error = "tool error") => ret.response = Fallback

\* C4: a turn that ends with the fallback response returns the input history
\* followed by the turn's user message.
C4_FallbackKeepsUserMessage ==
    (Returned /\ ret.response = Fallback) =>
        /\ Len(ret.updated_history) > Len(arg.history)
        /\ SubSeq(ret.updated_history, 1, Len(arg.history)) = arg.history
        /\ ret.updated_history[Len(arg.history) + 1].role = "human"
        /\ ret.updated_history[Len(arg.history) + 1].content = arg.query

C6_Routing ==
    /\ [][((pc = "agent" /\ Len(state'.messages) = Len(state.messages) + 1) =>
            pc' = IF Last(state'.messages).tool_calls # <<>>
                  THEN "tools" ELSE "response")]_vars
    /\ [][((pc = "tools" /\ steps' = steps + 1) => pc' = "agent")]_vars
    /\ [][((pc = "response" /\ steps' = steps + 1) =>
            /\ pc' = "END"
            /\ state'.response = IF Last(state.messages).content # ""
                                 THEN Last(state.messages).content ELSE Fallback)]_vars
    /\ [](pc = "response" => ~HasToolCalls(Last(state.messages)))
    /\ [](pc = "tools" => HasToolCalls(Last(state.messages)))

\* A turn went model -> tools -> model -> response and took its response
\* from the last reply.
C6_Witness ==
    /\ pc = "END"
    /\ rounds = 1
    /\ Last(state.messages).role = "ai"
    /\ state.response = "answer"

\* C7: a call that returns from the graph run returns the non-system
\* messages of its input history, then the new user message, then the
\* messages this run produced in the order they were produced; no system
\* message and no message twice.
C7_UpdatedHistory ==
    [][((pc = "END" /\ pc' = "idle") =>
         LET h == ret'.updated_history
             n == Len(SelectNonSystem(arg.history))
         IN /\ Len(h) = n + 1 + Len(produced)
            /\ SubSeq(h, 1, n) = SelectNonSystem(arg.history)
            /\ h[n + 1].role = "human" /\ h[n + 1].content = arg.query
            /\ h[n + 1].id \notin Ids(arg.history)
            /\ SubSeq(h, n + 2, Len(h)) = produced
            /\ \A i \in 1..Len(produced) : produced[i].role \in {"ai", "tool"}
            /\ \A i \in 1..Len(h) : h[i].role # "system"
            /\ NoDuplicates(h))]_vars

\* A turn without error was given a history holding a system message and
\* produced a tool request, its two results and the final reply.
C7_Witness ==
    /\ Returned
    /\ state.error = None
    /\ \E i \in 1..Len(arg.history) : arg.history[i].role = "system"
    /\ Len(produced) = 4
    /\ ret.updated_history = SelectNonSystem(state.messages)

\* C8: over the turns of one conversation, each given the previous turn's
\* updated_history, the history only grows at its end: its length never
\* decreases and every message stays, unchanged, where it was.
C8_HistoryMonotonic ==
    [][(/\ Len(history') >= Len(history)
       /\ \A i \in 1..Len(history) : history'[i] = history[i])]_vars

\* A second turn failed at the step limit after a first turn that had
\* stored messages: the history is the first turn's.
C8_Witness ==
    /\ Returned
    /\ turn = 2
    /\ Len(arg.history) >= 2
    /\ steps = RecursionLimit /\ pc = "idle" /\ HasToolCalls(Last(state.messages))
    /\ history = arg.history

----------------------------------------------------------------------------
(* Properties of the session registry *)

InFlight(r) == reqs[r].pc \in {"thread", "resume"}

\* The messages a completed turn appended to the history it was given.
AppendedBy(r) ==
    SubSeq(reqs[r].result.updated_history, Len(reqs[r].history) + 1,
           Len(reqs[r].result.updated_history))

RECURSIVE AppendedInOrder(_)
AppendedInOrder(rs) ==
    IF rs = <<>> THEN <<>> ELSE AppendedBy(Head(rs)) \o AppendedInOrder(Tail(rs))

InSeq(x, sq) == \E i \in 1..Len(sq) : sq[i] = x

\* Every turn received for the session has completed, and none of them
\* dates from before a clearing of the session.
AllTurnsCompleted(sid) ==
    /\ received[sid] # <<>>
    /\ \A r \in 1..Len(reqs) :
         (reqs[r].session_id = sid /\ reqs[r].user_input # "") =>
             reqs[r].pc = "done" /\ InSeq(r, received[sid])

\* C9: once the turns received for a session id have completed, the stored
\* history is exactly the messages appended by those turns, in the order the
\* turns were received, also when the requests overlapped in time.
C9_TurnsStoredInOrder ==
    \A sid \in {"default", "s1"} :
        AllTurnsCompleted(sid) =>
            /\ sid \in DOMAIN conversation_sessions
            /\ conversation_sessions[sid] = AppendedInOrder(received[sid])

\* C10: no two turns for the same session id are in progress at the same
\* time.
C10_OneTurnPerSession ==
    \A r1, r2 \in 1..Len(reqs) :
        (r1 # r2 /\ reqs[r1].session_id = reqs[r2].session_id) =>
            ~(InFlight(r1) /\ InFlight(r2))

\* The registry's entry for session id s differs before and after the step.
EntryChanged(s) ==
    \/ (s \in DOMAIN conversation_sessions) # (s \in DOMAIN conversation_sessions')
    \/ /\ s \in DOMAIN conversation_sessions
       /\ s \in DOMAIN conversation_sessions'
       /\ conversation_sessions[s] # conversation_sessions'[s]

\* C11: sessions are independent: a step of the server changes the stored
\* history of at most one session id; a step of a turn changes only the
\* entry of the turn's own session id, the history the turn fetches is the
\* one of its own session id, and its agent run works on that history alone
\* and changes no entry.
C11_SessionsIndependent ==
    [][(/\ \A a, b \in {"default", "s1"} :
             (EntryChanged(a) /\ EntryChanged(b)) => a = b
        /\ Len(reqs') > Len(reqs) =>
             LET new == reqs'[Len(reqs')]
             IN /\ \A b \in {"default", "s1"} :
                     EntryChanged(b) => b = new.session_id
                /\ new.pc = "thread" =>
                     /\ new.history = conversation_sessions'[new.session_id]
                     /\ new.session_id \in DOMAIN conversation_sessions =>
                            new.history = conversation_sessions[new.session_id]
        /\ \A r \in 1..Len(reqs) :
             /\ (reqs[r].pc = "thread" /\ reqs'[r].pc = "resume") =>
                  /\ \A b \in {"default", "s1"} : ~EntryChanged(b)
                  /\ \E bh \in Behaviours : reqs'[r].result =
                        run_agent_with_history(reqs[r].user_input,
                                               reqs[r].history, bh, r)
             /\ (reqs[r].pc = "resume" /\ reqs'[r].pc = "done") =>
                  /\ \A b \in {"default", "s1"} :
                        EntryChanged(b) => b = reqs[r].session_id
                  /\ conversation_sessions'[reqs[r].session_id] =
                        reqs[r].result.updated_history)]_vars

\* A turn of one session id was stored while the other session id held a
\* history of its own: both are stored, each with its own turn's messages.
C11_Witness ==
    /\ Len(reqs) = 2
    /\ reqs[1].pc = "done" /\ reqs[2].pc = "done"
    /\ reqs[1].session_id # reqs[2].session_id
    /\ DOMAIN conversation_sessions = {"default", "s1"}
    /\ conversation_sessions[reqs[1].session_id] = reqs[1].result.updated_history
    /\ conversation_sessions[reqs[2].session_id] = reqs[2].result.updated_history
    /\ Len(reqs[1].result.updated_history) > 0
    /\ Len(reqs[2].result.updated_history) > 0

\* C12: within a turn, response is null in every state before the terminal
\* step (response_node) has run: while the model is awaited, while tools
\* execute, and while the terminal step is still to come.
C12_ResponseNullBeforeEnd ==
    pc \in {"agent", "tools", "response"} => state.response = None

\* The model is being invoked in this step.
Invoking == pc = "agent" /\ Len(invocations') = Len(invocations) + 1

NoSystemMessage(msgs) == \A i \in 1..Len(msgs) : msgs[i].role # "system"

\* What C13 says of the messages m given to the model in this step.
ModelInputAsClaimed(m) ==
    LET h == arg.history
    IN /\ Len(m) = Len(h) + 2 + Len(produced)
       /\ m[1].role = "system" /\ m[1].content = SYSTEM_PROMPT
       /\ SubSeq(m, 2, Len(h) + 1) = h
       /\ m[Len(h) + 2].role = "human" /\ m[Len(h) + 2].content = arg.query
       /\ SubSeq(m, Len(h) + 3, Len(m)) = produced
       /\ \A i \in 1..Len(produced) : produced[i].role \in {"ai", "tool"}
       /\ invocations = <<>> => produced = <<>>
       /\ \A i \in 2..Len(m) : m[i].role # "system"

\* C13 (as stated): every model invocation of a turn receives the system
\* instructions, the prior history, the new user message and the turn's
\* assistant and tool messages so far, with exactly one system message, at
\* position 0 -- whatever history the caller supplied.
C13_ModelInputOriginal ==
    [][(Invoking => ModelInputAsClaimed(llm_input'))]_vars

\* C13 (amended): the same, when the supplied history holds no system
\* message (as every updated_history does); a system message inside the
\* supplied history is passed on to the model as well.
C13_ModelInput ==
    [][((Invoking /\ NoSystemMessage(arg.history))
            => ModelInputAsClaimed(llm_input'))]_vars

C13_Witness ==
    /\ Len(invocations) = 2
    /\ arg.history # <<>> /\ NoSystemMessage(arg.history)
    /\ Len(llm_input) = Len(arg.history) + 2 + 2
    /\ llm_input[Len(llm_input)].role = "tool"

\* C14 (as stated): in a conversation started from an empty history, the
\* history after turn N has length exactly 2N.
C14_TwoMessagesPerTurn ==
    pc = "idle" => Len(history) = 2 * turn

\* C14 (amended): the history after turn N has length exactly 2N, one user
\* message followed by one assistant message per turn, when in each of the N
\* turns the model answered at its first invocation without requesting a
\* tool.
C14_TwoMessagesPerPlainTurn ==
    (pc = "idle" /\ plainTurns = turn) =>
        /\ Len(history) = 2 * turn
        /\ \A k \in 1..turn : /\ history[2 * k - 1].role = "human"
                               /\ history[2 * k].role = "ai"
                               /\ history[2 * k].tool_calls = <<>>

C14_Witness ==
    pc = "idle" /\ turn = 2 /\ plainTurns = 2 /\ Len(history) = 4

-----------------------------------------------------------------------------
(* Properties of the tool layer *)

\* The worker's tool call has returned a text.
ToolReturned(w, tool) ==
    /\ workers[w].pc = "done"
    /\ workers[w].tool = tool
    /\ workers[w].result.kind = "return"

\* The pieces of a text between its "---" lines.
RECURSIVE SplitBlocks(_)
SplitBlocks(text) ==
    IF \A i \in 1..Len(text) : text[i] # "---"
    THEN <<text>>
    ELSE LET i == CHOOSE j \in 1..Len(text) :
                    text[j] = "---" /\ \A h \in 1..(j - 1) : text[h] # "---"
         IN <<SubSeq(text, 1, i - 1)>>
                \o SplitBlocks(SubSeq(text, i + 1, Len(text)))

\* Block i of n, without the blank line that parts it from its neighbours.
BlockText(blocks, i) ==
    LET b == blocks[i]
        from == IF i > 1 THEN 3 ELSE 1
        to == IF i < Len(blocks) THEN Len(b) - 2 ELSE Len(b)
    IN SubSeq(b, from, to)

\* C15: search_sop_tool returns the sentinel "No relevant procedures found
\* for this query." when retrieval returns no documents, and otherwise one
\* "[chunk-id] content" block per retrieved document, at most top-K of
\* them, in the order of the retriever's ranking.
C15_SearchToolBlocks ==
    \A w \in Workers : ToolReturned(w, "search_sop_tool") =>
        LET documents == workers[w].documents
            text == workers[w].result.value
            blocks == SplitBlocks(text)
        IN IF documents = <<>>
           THEN text = <<"No relevant procedures found for this query.">>
           ELSE /\ Len(blocks) = Len(documents)
                /\ Len(blocks) <= top_k
                /\ \A i \in 1..Len(documents) :
                     LET id == documents[i].metadata.chunk_id
                         label == IF id = None
                                  THEN <<"result_", ToString(i)>> ELSE <<id>>
                     IN BlockText(blocks, i) =
                            <<"[">> \o label \o <<"]", "\n">>
                                \o strip(documents[i].page_content)

C15_Witness ==
    \E w \in Workers :
        /\ ToolReturned(w, "search_sop_tool")
        /\ workers[w].documents = <<Doc2, Doc1>>
        /\ workers[w].result.value =
              <<"[", "chunk_002", "]", "\n", "late", "\n", "policy",
                "\n", "\n", "---", "\n", "\n",
                "[", "chunk_001", "]", "\n", "walk-ins", " ", "welcome">>

\* The canonical topic vocabulary.
CanonicalTopics ==
    {"greeting", "scheduling", "cancellation", "reschedule", "walk-in",
     "directions", "wait times", "late arrival", "online booking", "closing",
     "hold", "communication"}

\* What get_procedure returns for a topic, given the documents found.
ProcedureTextAsClaimed(topic, documents, text) ==
    IF documents = <<>>
    THEN text = <<"No procedure found for topic: ", topic>>
    ELSE text = <<"Procedure for '", topic, "':", "\n", "\n">>
                    \o strip(documents[1].page_content)

\* C16 (as stated): get_procedure rewrites a topic that is in the 12-entry
\* table, whose keys are the canonical vocabulary, and searches for the raw
\* topic string when the topic is not in the table; it returns "Procedure
\* for '<topic>':" and the top-ranked chunk's content, or "No procedure
\* found for topic: <topic>" when nothing is found.
C16_TopicLookupExact ==
    /\ DOMAIN topic_queries = CanonicalTopics
    /\ \A w \in Workers : workers[w].tool = "get_procedure" =>
         LET topic == workers[w].input
         IN /\ workers[w].search_query =
                  IF topic \in CanonicalTopics THEN topic_queries[topic] ELSE topic
            /\ ToolReturned(w, "get_procedure") =>
                  ProcedureTextAsClaimed(topic, workers[w].documents,
                                         workers[w].result.value)

\* C16 (amended): the same, with the table looked up by the lower-cased
\* topic: a topic that differs from a key only by letter case is rewritten
\* too; the returned text names the topic as it was given.
C16_TopicLookup ==
    /\ DOMAIN topic_queries = CanonicalTopics
    /\ Cardinality(CanonicalTopics) = 12
    /\ \A w \in Workers : workers[w].tool = "get_procedure" =>
         LET topic == workers[w].input
         IN /\ workers[w].search_query =
                  IF lower(topic) \in CanonicalTopics
                  THEN topic_queries[lower(topic)] ELSE topic
            /\ topic = "HOLD" => workers[w].search_query = "hold waiting please hold"
            /\ topic = "parking" => workers[w].search_query = "parking"
            /\ ToolReturned(w, "get_procedure") =>
                  ProcedureTextAsClaimed(topic, workers[w].documents,
                                         workers[w].result.value)

C16_Witness ==
    \E w \in Workers :
        /\ ToolReturned(w, "get_procedure")
        /\ workers[w].input = "HOLD"
        /\ workers[w].search_query = "hold waiting please hold"
        /\ workers[w].documents # <<>>
        /\ workers[w].documents[1] = Doc3
        /\ workers[w].result.value =
              <<"Procedure for '", "HOLD", "':", "\n", "\n", "hold">>

\* Worker w takes a step of its tool call.
WorkerStep(w) == workers'[w] # workers[w]

\* C17 (as stated): a call of search_sop_tool or get_procedure changes no
\* conversation state, no session history and no index content, and leaves
\* all state another operation can observe as it was.
C17_ToolsChangeNothing ==
    [][((\E w \in Workers : WorkerStep(w)) =>
            UNCHANGED <<agentVars, serverVars, index_file, index_docs, top_k,
                        vectorstore>>)]_vars

\* C17 (amended): a call changes no conversation state, no session history
\* and no index content. The one thing it may write is the process-wide
\* cached vectorstore: a call that finds it unset and the index file present
\* loads the index and stores the new instance; a call that finds it set
\* leaves it as it is.
C17_ToolsWriteOnlyTheCache ==
    [][(\A w \in Workers : WorkerStep(w) =>
          /\ UNCHANGED <<agentVars, serverVars, index_file, index_docs, top_k>>
          /\ \A v \in Workers \ {w} : workers'[v] = workers[v]
          /\ vectorstore' # vectorstore =>
                /\ workers[w].pc = "load"
                /\ index_file
                /\ vectorstore' = [instance |-> loads + 1]
          /\ (workers[w].pc = "get_vectorstore" /\ vectorstore # NotLoaded) =>
                /\ workers'[w].pc = "return"
                /\ vectorstore' = vectorstore)]_vars

\* A second call of a worker has returned documents from the instance its
\* first call loaded.
C17_Witness ==
    \E w \in Workers :
        /\ workers[w].pc = "done" /\ workers[w].result.kind = "return"
        /\ workers[w].calls = 1
        /\ loads = 1
        /\ vectorstore = [instance |-> 1]
        /\ workers[w].vs = vectorstore
        /\ \A v \in Workers \ {w} : workers[v] = IdleWorker(0)

\* C18: when the index file is absent, get_vectorstore raises
\* FileNotFoundError to its caller on that very call: the call that finds
\* the file missing ends with the error as its result, no load is tried,
\* and no vectorstore is cached, so that every later call raises as well.
C18_IndexNotFoundRaised ==
    [][(~index_file =>
          /\ \A w \in Workers :
                (workers[w].pc = "exists" /\ WorkerStep(w)) =>
                    /\ workers'[w].pc = "done"
                    /\ workers'[w].result = Raised("FileNotFoundError")
          /\ \A w \in Workers :
                workers'[w].pc = "done" =>
                    workers'[w].result = Raised("FileNotFoundError")
          /\ \A w \in Workers : workers'[w].pc \notin {"load", "return", "invoke"}
          /\ vectorstore' = NotLoaded
          /\ loads' = 0)]_vars

\* A worker's second call has raised as its first did.
C18_Witness ==
    \E w \in Workers :
        /\ ~index_file
        /\ workers[w].pc = "done"
        /\ workers[w].calls = 1
        /\ workers[w].result = Raised("FileNotFoundError")
        /\ vectorstore = NotLoaded

\* C19: under any interleaving of concurrent searches the index is loaded
\* from storage at most once, and every search uses that one instance.
C19_LoadedOnce ==
    /\ loads <= 1
    /\ \A w \in Workers :
          workers[w].vs # NotLoaded => workers[w].vs = [instance |-> 1]

-----------------------------------------------------------------------------
(* Properties of the index build *)

\* C20: EmbeddingsService.initialize makes at most 3 attempts, succeeds at
\* the first attempt that yields a non-empty test embedding, has waited the
\* fixed delay before every retry, and fails after the third failed
\* attempt; SOPIndexer.run then ends without creating or saving an index.
C20_InitializeRetries ==
    LET n == Len(build.tries)
    IN /\ n <= 3
       /\ build.pc \in {"create", "save", "validate"} =>
             /\ build.tries[n] = "ok"
             /\ \A i \in 1..(n - 1) : build.tries[i] # "ok"
       /\ build.pc = "initialize" =>
             /\ n = build.attempt - 1
             /\ build.waited = RETRY_DELAY * (build.attempt - 1)
       /\ (n = 3 /\ build.tries[n] # "ok") =>
             /\ build.pc = "done" /\ build.result = "False"
             /\ ~build.vectorstore /\ ~build.saved
       /\ (build.pc = "done" /\ n > 0 /\ build.tries[n] # "ok") => n = 3

\* The place of a path among the discovered paths.
PathIndex(path) ==
    CHOOSE i \in 1..Len(build.doc_paths) : build.doc_paths[i] = path

\* C21: a document whose load raises is skipped and the other documents
\* are loaded all the same, in the order of their paths; the build goes on
\* past the loading step if and only if at least one document was loaded,
\* and returns False when none was.
C21_FailingDocumentsSkipped ==
    build.step >= 2 =>
        LET documents == build.documents
            sources == {documents[i].source : i \in 1..Len(documents)}
        IN /\ sources = {build.doc_paths[i] : i \in 1..Len(build.doc_paths)}
                            \ build.failing
           /\ \A i, j \in 1..Len(documents) :
                 i < j => PathIndex(documents[i].source) < PathIndex(documents[j].source)
           /\ documents = <<>> <=>
                 (build.pc = "done" /\ build.step = 2 /\ build.result = "False")
           /\ (documents # <<>> /\ build.step = 2) => build.pc = "chunk"

C21_Witness ==
    /\ build.doc_paths = <<"sop.docx", "faq.docx">>
    /\ build.failing = {"sop.docx"}
    /\ build.documents = <<[source |-> "faq.docx"]>>
    /\ build.pc = "chunk"

\* C22: if persisting the index fails, run returns False and the index
\* directory holds no file written, wholly or in part, by that build: it
\* holds the complete earlier index or no index.
C22_FailedSaveLeavesNoPartialIndex ==
    (build.pc = "done" /\ build.step = 7) =>
        /\ build.result = "False"
        /\ build.dir \in {IndexDir(TRUE), IndexDir(FALSE)}

\* C23: whenever run returns True, the index files and the manifest
\* index_info.json of that build have been written to the index directory.
C23_SuccessMeansIndexAndManifest ==
    build.result = "True" =>
        /\ build.dir.faiss = "new"
        /\ build.dir.pkl = "new"
        /\ build.dir.info = "new"

\* The number a chunk id ends with.
DigitValue(d) == CHOOSE n \in 0..9 : ToString(n) = d
IdNumber(id) == 100 * DigitValue(id[2]) + 10 * DigitValue(id[3]) + DigitValue(id[4])

\* C24: in every built index the chunk ids are pairwise distinct and
\* strictly increasing along the chunks, every chunk's char_count is the
\* length of its content, and the index holds as many vectors as chunks.
C24_ChunkIdsAndCounts ==
    build.vectorstore =>
        LET chunks == build.chunks
        IN /\ \A k, l \in 1..Len(chunks) :
                 k < l => /\ chunks[k].metadata.chunk_id # chunks[l].metadata.chunk_id
                          /\ IdNumber(chunks[k].metadata.chunk_id)
                                < IdNumber(chunks[l].metadata.chunk_id)
           /\ \A k \in 1..Len(chunks) :
                 /\ chunks[k].metadata.chunk_id[1] = "chunk_"
                 /\ Len(chunks[k].metadata.chunk_id) = 4
                 /\ chunks[k].metadata.char_count = Len(chunks[k].page_content)
           /\ build.vectors = Len(chunks)

C24_Witness ==
    /\ build.vectorstore
    /\ Len(build.documents) = 2
    /\ Len(build.chunks) = 5
    /\ build.chunks[5].metadata.chunk_id = <<"chunk_", "0", "0", "5">>
    /\ build.chunks[5].metadata.char_count = 2
    /\ build.vectors = 5

\* The chunks of the document chunk k comes from, as places in the sequence.
OwnChunks(chunks, k) ==
    {l \in 1..Len(chunks) : chunks[l].metadata.source = chunks[k].metadata.source}

\* C25: each chunk's position follows from its fractional offset within its
\* own source document: beginning in the first 20%, end at or beyond 80%,
\* middle otherwise.
C25_PositionWithinOwnDocument ==
    \A k \in 1..Len(build.chunks) :
        LET own == OwnChunks(build.chunks, k)
            n == Cardinality(own)
            j == Cardinality({l \in own : l < k})
        IN build.chunks[k].metadata.position =
              IF j * 100 < 20 * n THEN "beginning"
              ELSE IF j * 100 >= 80 * n THEN "end"
              ELSE "middle"

-----------------------------------------------------------------------------
(* Further properties of the agent graph *)

\* The model's last reply of the run asked for no tool and held no text.
EmptyFinalReply ==
    /\ invocations # <<>>
    /\ Last(invocations).kind = "reply"
    /\ Last(invocations).tool_calls = <<>>
    /\ Last(invocations).content = ""

\* C26: if the model's final reply of a turn (a reply without tool calls)
\* has empty content, the response returned for the turn is the canned
\* fallback text, never an empty string.
C26_EmptyReplyGivesFallback ==
    (Returned /\ EmptyFinalReply) =>
        /\ ret.response = ERROR_RESPONSE_PROMPT
        /\ ret.response # ""

C26_Witness ==
    /\ Returned /\ EmptyFinalReply
    /\ Len(invocations) = 2
    /\ Last(ret.updated_history).role = "ai"
    /\ Last(ret.updated_history).content = ""
    /\ ret.response = ERROR_RESPONSE_PROMPT

-----------------------------------------------------------------------------
(* The greeting (graph.py:446-453) *)

\* The agent with a model that may repeat the greeting.
AgentStepGreeting == AgentStepWith(GreetingOutcomes)

NextGreeting == Call \/ AgentStepGreeting \/ ResponseStep \/ Return

SpecGreeting == Init /\ [][NextGreeting]_vars

\* The assistant messages of a history that are the greeting.
Greetings(hist) ==
    { i \in DOMAIN hist :
        hist[i].role = "ai" /\ hist[i].content = get_greeting }

\* C27: in a session's history, after the second user turn, the fixed
\* greeting string returned by get_greeting is never present as an
\* assistant message.
C27_GreetingNeverRepeated ==
    (pc = "idle" /\ turn >= 2) => Greetings(history) = {}

\* C28: when the model's reply requests tool calls, the tools step appends
\* exactly one tool-result message per requested call, in request order,
\* directly after the requesting assistant message and before the model is
\* invoked again; it then sets context to the content of the last tool
\* result; and context is null at the start of every turn.
C28_ToolResultsAndContext ==
    [][( /\ (pc = "idle" /\ pc' = "agent") => state'.context = None
         /\ (pc = "tools" /\ pc' = "agent") =>
               LET calls == Last(state.messages).tool_calls
                   n == Len(state.messages)
               IN /\ calls # <<>>
                  /\ Len(state'.messages) = n + Len(calls)
                  /\ SubSeq(state'.messages, 1, n) = state.messages
                  /\ \A i \in 1..Len(calls) :
                        /\ state'.messages[n + i].role = "tool"
                        /\ state'.messages[n + i].content = ToolResult(calls[i])
                  /\ state'.context = Last(state'.messages).content )]_vars

\* C29: during a turn, tool_calls holds exactly the names of the tools the
\* model has requested and that have not yet been executed: non-empty
\* between a tool-requesting model reply and the execution of those
\* tools, and empty otherwise.
C29_PendingToolCalls ==
    (pc \in {"agent", "tools", "response", "END"}) =>
        state.tool_calls = IF pc = "tools"
                           THEN Last(state.messages).tool_calls
                           ELSE <<>>

-----------------------------------------------------------------------------
(* Further properties of the tool layer *)

\* C30: get_procedure performs a single-result search: for every topic,
\* the retrieval it issues asks the index for exactly one chunk (k = 1).
C30_ProcedureAsksForOneChunk ==
    \A w \in Workers :
        (workers[w].tool = "get_procedure" /\ workers[w].k # 0) =>
            /\ workers[w].k = 1
            /\ Len(workers[w].documents) <= 1

-----------------------------------------------------------------------------
(* Direct calls of the retrieval functions of sop_service.py *)

SearchFunctions == {"get_retriever", "search_sop", "search_sop_with_scores"}

\* The top_k arguments tried: None (written 0, as in RetrieverK), a
\* negative number, and the positive numbers up to MaxTopK.
TopKArguments == (-1)..MaxTopK

\* A caller calls one of the functions with some top_k; k is computed
\* before the vectorstore is fetched (lines 147-150, 198-201; search_sop
\* hands its top_k to get_retriever, line 176).
search_call(w) ==
    /\ workers[w].pc = "idle"
    /\ workers[w].calls < MaxCalls
    /\ \E fn \in SearchFunctions, arg_top_k \in TopKArguments :
         SetWorker(w, [workers[w] EXCEPT !.pc = "get_vectorstore",
                           !.tool = fn, !.input = arg_top_k,
                           !.k = RetrieverK(arg_top_k, top_k)])
    /\ UNCHANGED <<index_file, index_docs, top_k, vectorstore, loads>>
    /\ UNCHANGED <<agentVars, serverVars, build>>

\* Lines 152-158 (the retriever is built with search_kwargs k and
\* returned), 179 (retriever.invoke) and 204 (similarity_search_with_score
\* with k=k). What the index does with a k below 1 is not fixed by this
\* code: it raises or finds nothing.
search_query(w) ==
    /\ workers[w].pc = "invoke"
    /\ \/ /\ workers[w].tool = "get_retriever"
          /\ SetWorker(w, [workers[w] EXCEPT !.pc = "done",
                 !.result = Returned_([search_kwargs |-> [k |-> workers[w].k]])])
       \/ /\ workers[w].tool # "get_retriever"
          /\ workers[w].k < 1
          /\ SetWorker(w, [workers[w] EXCEPT !.pc = "done",
                 !.result = Raised("AssertionError")])
       \/ /\ workers[w].tool # "get_retriever"
          /\ \E documents \in Rankings(index_docs, workers[w].k) :
                SetWorker(w, [workers[w] EXCEPT !.pc = "done",
                    !.documents = documents,
                    !.result = Returned_(documents)])
    /\ UNCHANGED <<index_file, index_docs, top_k, vectorstore, loads>>
    /\ UNCHANGED <<agentVars, serverVars, build>>

NextSearch ==
    \/ \E w \in Workers : search_call(w)
    \/ \E w \in Workers : get_vectorstore_check(w)
    \/ \E w \in Workers : get_vectorstore_exists(w)
    \/ \E w \in Workers : get_vectorstore_load(w)
    \/ \E w \in Workers : get_vectorstore_return(w)
    \/ \E w \in Workers : search_query(w)
    \/ \E w \in Workers : tool_return(w)

SpecSearch == InitTools /\ [][NextSearch]_vars

\* C31: every query issued to the vector index by get_retriever,
\* search_sop and search_sop_with_scores uses a k that is a positive
\* integer, for every top_k argument a caller can pass.
C31_PositiveK ==
    \A w \in Workers :
        (workers[w].tool \in SearchFunctions /\ workers[w].pc = "invoke") =>
            workers[w].k >= 1

-----------------------------------------------------------------------------
(* Further properties of the index build *)

\* C32: the post-build retrieval self-test does not gate the build:
\* whatever happens in the self-test (a test query raising included), a
\* build whose index was created, saved and validated still goes on to
\* write its manifest and returns success.
C32_SelfTestDoesNotGate ==
    (build.pc = "done" /\ build.step >= 9) =>
        /\ build.step = 10
        /\ build.result = "True"

-----------------------------------------------------------------------------
(* Further properties of the server *)

\* C33: after clear-session(id) completes, the registry holds no history
\* for id, and a turn that was in flight for id when it was cleared cannot
\* re-insert the pre-clear history afterwards: the next turn received for
\* id starts from an empty history. (received[id] lists the turns received
\* for id since it was last cleared or created.)
C33_ClearedSessionStartsEmpty ==
    [][( /\ \A sid \in SessionIds :
              (received[sid] # <<>> /\ received'[sid] = <<>>) =>
                  sid \notin DOMAIN conversation_sessions'
         /\ Len(reqs') > Len(reqs) =>
              LET new == reqs'[Len(reqs')]
              IN (new.pc = "thread" /\ received[new.session_id] = <<>>) =>
                     new.history = <<>> )]_vars

\* C34: every reply of the voice-response endpoint to a non-empty message
\* carries the fields text, audio, audio_format, session_id and
\* history_length; when speech synthesis fails, audio is null and error is
\* non-null while the other fields are still present, and the session's
\* stored history already includes the turn.
C34_VoiceReplyFields ==
    \A r \in 1..Len(reqs) :
        (reqs[r].kind = "voice" /\ reqs[r].pc = "done" /\ reqs[r].user_input # "") =>
            /\ {"text", "audio", "audio_format", "session_id", "history_length"}
                    \subseteq DOMAIN reqs[r].reply
            /\ reqs[r].reply.audio = None =>
                    /\ "error" \in DOMAIN reqs[r].reply
                    /\ reqs[r].reply.error # None

-----------------------------------------------------------------------------
(* run_agent_with_history as a function of its arguments and of what the     *)
(* model and the tools gave                                                  *)

\* agent.invoke(state), the i-th invocation of the model giving
\* model_outputs[i] and the j-th run of the tools giving tool_outputs[j].
RECURSIVE InvokeWith(_, _, _, _, _, _)
InvokeWith(st, node, n, model_outputs, tool_outputs, tag) ==
    IF node = "END" THEN [raised |-> FALSE, state |-> st]
    ELSE IF OutOfSteps(n) THEN [raised |-> TRUE, state |-> st]
    ELSE CHOOSE result \in
            { InvokeWith(next, NextNode(node, next), n + 1,
                  IF node = "agent" THEN Tail(model_outputs) ELSE model_outputs,
                  IF node = "tools" THEN Tail(tool_outputs) ELSE tool_outputs,
                  tag) :
              next \in { ApplyUpdate(st,
                  CASE node = "agent" -> agent_node(st, Head(model_outputs), tag)
                    [] node = "tools" -> tool_node(st, Head(tool_outputs), tag)
                    [] node = "response" -> response_node(st)) } } : TRUE

RunAgentWith(query, hist, model_outputs, tool_outputs, tag) ==
    LET initial == StartState(NoState, InitialMessages(tag, query, hist), query)
        result == InvokeWith(initial, "agent", 0, model_outputs, tool_outputs, tag)
    IN IF result.raised THEN ExceptValue(hist) ELSE ReturnValue(result.state)

-----------------------------------------------------------------------------
(* The order of the build's steps *)

\* This build has written to an index file.
IndexWritten ==
    \/ build.saved
    \/ build.dir.faiss \in {"new", "partial"}
    \/ build.dir.pkl \in {"new", "partial"}

-----------------------------------------------------------------------------
(* The manifest *)

\* The values of a function over a finite set, added up.
RECURSIVE SumOver(_, _)
SumOver(f, keys) ==
    IF keys = {} THEN 0
    ELSE LET key == CHOOSE x \in keys : TRUE
         IN f[key] + SumOver(f, keys \ {key})

\* C37: in every manifest produced by IndexInfoGenerator.generate,
\* statistics.total_chunks equals the number of entries of chunks, equals
\* the sum of the source_distribution counts, and equals the sum of
\* sources[].chunks (a discovered document that failed to load is listed
\* with 0 chunks); statistics.total_characters equals the sum of the
\* chunk entries' chars.
C37_ManifestTotalsAgree ==
    build.step = 10 =>
        LET info == build.index_info
        IN /\ info.statistics.total_chunks = Len(info.chunks)
           /\ info.statistics.total_chunks =
                  SumOver(info.source_distribution, DOMAIN info.source_distribution)
           /\ info.statistics.total_chunks =
                  sum([i \in 1..Len(info.sources) |-> info.sources[i].chunks])
           /\ Len(info.sources) = Len(build.doc_paths)
           /\ \A i \in 1..Len(info.sources) :
                  info.sources[i].name \in build.failing => info.sources[i].chunks = 0
           /\ info.statistics.total_characters =
                  sum([k \in 1..Len(info.chunks) |-> info.chunks[k].chars])

\* A manifest of a build of two documents, one of which failed to load,
\* the other giving two chunks or more.
C37_Witness ==
    /\ build.step = 10
    /\ Len(build.doc_paths) = 2
    /\ build.failing = {"sop.docx"}
    /\ build.index_info.statistics.total_chunks >= 2
    /\ build.index_info.sources[1].chunks = 0
    /\ build.index_info.sources[2].chunks = build.index_info.statistics.total_chunks

-----------------------------------------------------------------------------
(* Requests without a message *)

\* C38: a chat or voice-response request whose message is empty or missing
\* returns an error reply without creating a session, without running the
\* agent and without changing any stored history: the session registry is
\* identical before and after the request.
C38_EmptyMessageChangesNothing ==
    /\ [][( Len(reqs') > Len(reqs) =>
              LET new == reqs'[Len(reqs')]
              IN new.user_input = "" =>
                    /\ conversation_sessions' = conversation_sessions
                    /\ new.pc = "done"
                    /\ new.reply = [error |-> "No message provided"] )]_vars
    /\ [](\A r \in 1..Len(reqs) :
              reqs[r].user_input = "" =>
                  /\ reqs[r].pc = "done"
                  /\ reqs[r].result = NoReturn
                  /\ reqs[r].reply = [error |-> "No message provided"])

\* A request without a message was answered for a session id that has no
\* session, after a turn of the other session id was stored.
C38_Witness ==
    /\ Len(reqs) = 2
    /\ reqs[1].user_input # "" /\ reqs[1].pc = "done"
    /\ reqs[2].user_input = "" /\ reqs[2].pc = "done"
    /\ reqs[2].session_id # reqs[1].session_id
    /\ DOMAIN conversation_sessions = {reqs[1].session_id}
    /\ conversation_sessions[reqs[1].session_id] = reqs[1].result.updated_history
    /\ reqs[2].reply = [error |-> "No message provided"]

-----------------------------------------------------------------------------
(* The state module (src/agent/state.py): add_user_message *)

\* An add_user_message that carries the old turn's fields over.
add_user_message_carrying(st, message, tag) ==
    [st EXCEPT !.messages = st.messages
                    \o <<HumanMessage(NewId(tag, st.messages, 1), message)>>,
               !.current_query = message]

\* state.py:234-255
add_user_message(st, message, tag) ==
    [messages |-> st.messages
                    \o <<HumanMessage(NewId(tag, st.messages, 1), message)>>,
     context |-> None,
     current_query |-> message,
     tool_calls |-> <<>>,
     response |-> None,
     error |-> None,
     call_stage |-> st.call_stage]

\* States a caller holds when it calls add_user_message.
MessageLists ==
    { <<>>,
      <<SystemMessage(<<0, 1>>, SYSTEM_PROMPT), HumanMessage(<<0, 2>>, "q")>>,
      <<HumanMessage(<<0, 1>>, "q"), AIMessage(<<0, 2>>, "answer", <<>>)>> }

StateInputs ==
    [messages : MessageLists,
     context : {None, "[1] sop text"},
     current_query : {None, "q"},
     tool_calls : {<<>>, <<"search_sop_tool">>},
     response : {None, "answer"},
     error : {None, "model error"},
     call_stage : {"greeting", "main", "closing"}]

\* The caller holds some state.
InitState ==
    /\ pc = "idle"
    /\ state \in StateInputs
    /\ steps = 0
    /\ rounds = 0
    /\ arg = NoArg
    /\ ret = NoReturn
    /\ turn = 0
    /\ produced = <<>>
    /\ llm_input = <<>>
    /\ invocations = <<>>
    /\ plainTurns = 0
    /\ history = <<>> /\ InitServer /\ InitIndexAtRest

\* add_user_message(state, message) is called and returns: it builds a new
\* list and a new AgentState (lines 245-255); the state it was given is
\* only read.
add_user_message_call ==
    /\ pc = "idle"
    /\ turn < MaxTurns
    /\ \E message \in {"Can I also walk in?", ""} :
         /\ arg' = [query |-> message, history |-> <<>>]
         /\ ret' = add_user_message(state, message, turn + 1)
    /\ turn' = turn + 1
    /\ pc' = "returned"
    /\ UNCHANGED <<state, steps, rounds, history, produced, llm_input,
                   invocations, plainTurns, serverVars, indexVars>>

\* state.py:408: state = add_user_message(state, ...): the caller goes on
\* with the returned state.
add_user_message_return ==
    /\ pc = "returned"
    /\ state' = ret
    /\ pc' = "idle"
    /\ UNCHANGED <<steps, rounds, arg, ret, history, turn, produced,
                   llm_input, invocations, plainTurns, serverVars, indexVars>>

NextState == add_user_message_call \/ add_user_message_return

SpecState == InitState /\ [][NextState]_vars

\* C39: add_user_message(state, m) returns a state whose messages are the
\* old messages followed by exactly one user message m, with
\* current_query = m, context, response and error reset to null and
\* tool_calls reset to empty, and with call_stage unchanged; the input
\* state itself is not modified.
C39_AddUserMessage ==
    [][( pc' = "returned" =>
           LET n == Len(state.messages)
           IN /\ state' = state
              /\ Len(ret'.messages) = n + 1
              /\ SubSeq(ret'.messages, 1, n) = state.messages
              /\ ret'.messages[n + 1].role = "human"
              /\ ret'.messages[n + 1].content = arg'.query
              /\ ret'.current_query = arg'.query
              /\ ret'.context = None
              /\ ret'.response = None
              /\ ret'.error = None
              /\ ret'.tool_calls = <<>>
              /\ ret'.call_stage = state.call_stage )]_vars

\* add_user_message has returned on a state that held a context, a
\* response, an error and a tool call.
C39_Witness ==
    /\ pc = "returned"
    /\ state.context # None /\ state.response # None
    /\ state.error # None /\ state.tool_calls # <<>>
    /\ state.call_stage = "closing"
    /\ Len(state.messages) = 2
    /\ Len(ret.messages) = 3
    /\ ret.call_stage = "closing"
    /\ ret.context = None

-----------------------------------------------------------------------------
(* VoiceCallHandler (src/voice/handlers.py): the life of a call *)

\* Invocations of handle_new_call, and the call sids they are given.
MaxHandled == 2
CallSids == {"CA1", "CA2"}

\* What an awaited step does: it returns, raises an Exception, or the task
\* is cancelled while it waits (CancelledError, which `except Exception`
\* does not catch).
AwaitOutcomes == {"ok", "raise", "cancelled"}

\* dict[key] = value
SetItem(dict, key, value) ==
    [k \in DOMAIN dict \cup {key} |-> IF k = key THEN value ELSE dict[k]]

\* if key in dict: del dict[key]
DelItem(dict, key) == [k \in DOMAIN dict \ {key} |-> dict[k]]

SetCall(c, pc_) == call_tasks' = [call_tasks EXCEPT ![c].pc = pc_]

\* handle_call_end, lines 60-73, run by the finally clause (line 58); it
\* awaits nothing, so it runs in one piece.
handle_call_end(c) ==
    /\ active_calls' = DelItem(active_calls, call_tasks[c].call_sid)
    /\ context_store' = DelItem(context_store, call_tasks[c].call_sid)
    /\ SetCall(c, "done")

\* handle_new_call up to its first await: lines 29-38.
handle_new_call(call_sid) ==
    /\ Len(call_tasks) < MaxHandled
    /\ context_store' = SetItem(context_store, call_sid,
                                [call_sid |-> call_sid, turns |-> 0])
    /\ call_tasks' = Append(call_tasks, [call_sid |-> call_sid, pc |-> "create_voice_pipeline"])
    /\ UNCHANGED <<active_calls, conversation_sessions, reqs, received,
                   agentVars, indexVars>>

\* create_voice_pipeline is over: lines 38-46.
create_voice_pipeline_done(c) ==
    /\ call_tasks[c].pc = "create_voice_pipeline"
    /\ \E out \in AwaitOutcomes :
         CASE out = "ok" ->
                /\ active_calls' = SetItem(active_calls, call_tasks[c].call_sid, c)
                /\ SetCall(c, "greeting")
                /\ UNCHANGED context_store
           [] out = "raise" ->
                /\ SetCall(c, "handle_call_error")
                /\ UNCHANGED <<active_calls, context_store>>
           [] out = "cancelled" -> handle_call_end(c)
    /\ UNCHANGED <<conversation_sessions, reqs, received, agentVars, indexVars>>

\* The greeting's run_agent is over: lines 42-51.
greeting_done(c) ==
    /\ call_tasks[c].pc = "greeting"
    /\ \E out \in AwaitOutcomes :
         CASE out = "ok" ->
                /\ SetCall(c, "run_pipeline")
                /\ UNCHANGED <<active_calls, context_store>>
           [] out = "raise" ->
                /\ SetCall(c, "handle_call_error")
                /\ UNCHANGED <<active_calls, context_store>>
           [] out = "cancelled" -> handle_call_end(c)
    /\ UNCHANGED <<conversation_sessions, reqs, received, agentVars, indexVars>>

\* run_pipeline is over: lines 51-58.
run_pipeline_done(c) ==
    /\ call_tasks[c].pc = "run_pipeline"
    /\ \E out \in AwaitOutcomes :
         CASE out = "raise" ->
                /\ SetCall(c, "handle_call_error")
                /\ UNCHANGED <<active_calls, context_store>>
           [] OTHER -> handle_call_end(c)
    /\ UNCHANGED <<conversation_sessions, reqs, received, agentVars, indexVars>>

\* handle_call_error is over (lines 75-89: it catches what its run_agent
\* raises), then the finally clause.
handle_call_error_done(c) ==
    /\ call_tasks[c].pc = "handle_call_error"
    /\ handle_call_end(c)
    /\ UNCHANGED <<conversation_sessions, reqs, received, agentVars, indexVars>>

NextVoice ==
    \/ \E call_sid \in CallSids : handle_new_call(call_sid)
    \/ \E c \in 1..Len(call_tasks) : create_voice_pipeline_done(c)
    \/ \E c \in 1..Len(call_tasks) : greeting_done(c)
    \/ \E c \in 1..Len(call_tasks) : run_pipeline_done(c)
    \/ \E c \in 1..Len(call_tasks) : handle_call_error_done(c)

SpecVoice == Init /\ [][NextVoice]_vars

\* C40: handle_new_call cleans up on every outcome: whether the pipeline
\* finishes or any step raises, when handle_new_call returns the call_sid
\* is in neither active_calls nor context_store; and at every moment each
\* key of active_calls is also a key of context_store.
C40_CallsCleanedUp ==
    /\ [][( \A c \in 1..Len(call_tasks) :
               (call_tasks[c].pc # "done" /\ call_tasks'[c].pc = "done") =>
                   /\ call_tasks[c].call_sid \notin DOMAIN active_calls'
                   /\ call_tasks[c].call_sid \notin DOMAIN context_store' )]_vars
    /\ [](DOMAIN active_calls \subseteq DOMAIN context_store)

====
